---- MODULE Spec2Model ----
(***************************************************************************)
(* Model of kisonix/tgscrap: the config classifier (detect_config_in_text), *)
(* the chronological orderer (order_results_newest_first), the output file  *)
(* lifecycle (write_filtered_file) and the per-channel loop of main().      *)
(* Text is a sequence of one-character strings; the regular expressions are *)
(* evaluated character by character.                                        *)
(***************************************************************************)
EXTENDS Integers, Sequences, FiniteSets, TLC

VARIABLES
    text,           \* classifier input: the message body handed to detect_config_in_text
    verdict,        \* classifier output: "none" before the call, then "pos" / "neg"
    channels_file,  \* "present" / "missing": whether args.channels exists
    channels,       \* main(): the channel URLs read from the channels file
    i,              \* main(): the loop counter of enumerate(channels, start=1)
    pc,             \* position of main() inside the loop body
    fetch_status,   \* outcome of the current channel's scrape_channel call
    extracted,      \* the records as scrape_channel returned them (snapshot)
    results,        \* main(): results (its records are the objects ordered holds)
    ordered,        \* main(): ordered
    matched_items,  \* main(): matched_items
    fs,             \* the output directory: base name -> file
    io_status,      \* outcome of the current channel's write_filtered_file call
    log             \* the steps main() has taken, in order

vars == <<text, verdict, channels_file, channels, i, pc, fetch_status, extracted,
          results, ordered, matched_items, fs, io_status, log>>

classifyVars == <<text, verdict>>
mainVars == <<channels_file, channels, i, pc, fetch_status, extracted, results,
              ordered, matched_items, fs, io_status, log>>

----------------------------------------------------------------------------
(* Bounds of the model *)

MaxAtoms == 3      \* a classifier body is a concatenation of at most MaxAtoms fragments
MaxLen == 3        \* the orderer is called on at most MaxLen records
MaxTime == 2       \* non-empty timestamps are 1..MaxTime, in lexicographic order
MaxChannels == 2   \* the channels file lists at most MaxChannels URLs
MaxRecords == 2    \* a fetched page holds at most MaxRecords messages

----------------------------------------------------------------------------
(* Characters *)

LowerLetters ==
    {"a","b","c","d","e","f","g","h","i","j","k","l","m",
     "n","o","p","q","r","s","t","u","v","w","x","y","z"}

UpperLetters ==
    {"A","B","C","D","E","F","G","H","I","J","K","L","M",
     "N","O","P","Q","R","S","T","U","V","W","X","Y","Z"}

Digits == {"0","1","2","3","4","5","6","7","8","9"}

UpperToLower ==
    "A" :> "a" @@ "B" :> "b" @@ "C" :> "c" @@ "D" :> "d" @@ "E" :> "e" @@
    "F" :> "f" @@ "G" :> "g" @@ "H" :> "h" @@ "I" :> "i" @@ "J" :> "j" @@
    "K" :> "k" @@ "L" :> "l" @@ "M" :> "m" @@ "N" :> "n" @@ "O" :> "o" @@
    "P" :> "p" @@ "Q" :> "q" @@ "R" :> "r" @@ "S" :> "s" @@ "T" :> "t" @@
    "U" :> "u" @@ "V" :> "v" @@ "W" :> "w" @@ "X" :> "x" @@ "Y" :> "y" @@
    "Z" :> "z"

\* (?i) / str.lower() on one character
LowerChar(c) == IF c \in UpperLetters THEN UpperToLower[c] ELSE c

\* \w
IsWord(c) == c \in LowerLetters \cup UpperLetters \cup Digits \cup {"_"}

\* \s
IsSpace(c) == c \in {" ", "\n", "\t", "\r"}

\* the complement of [^\s'"<>]
IsUrlStop(c) == IsSpace(c) \/ c \in {"'", "\"", "<", ">"}

\* [A-Za-z0-9+/]
IsB64(c) == c \in LowerLetters \cup UpperLetters \cup Digits \cup {"+", "/"}

Range(s) == {s[k] : k \in DOMAIN s}

Max(a, b) == IF a >= b THEN a ELSE b
Min(a, b) == IF a <= b THEN a ELSE b

----------------------------------------------------------------------------
(* Config-detection heuristics *)

PRIMARY_SCHEMES ==
    << <<"v","m","e","s","s">>,
       <<"s","s">>,
       <<"s","o","c","k","s">>,
       <<"v","l","e","s","s">>,
       <<"t","r","o","j","a","n">>,
       <<"w","i","r","e","g","u","a","r","d">>,
       <<"h","y","s","t","e","r","i","a","2">> >>

\* the alternation of HTTP_CONTAINS_SCHEME_RX
HTTP_KEYWORDS ==
    << <<"v","m","e","s","s">>,
       <<"v","l","e","s","s">>,
       <<"t","r","o","j","a","n">>,
       <<"s","s">>,
       <<"s","o","c","k","s">>,
       <<"h","y","s","t","e","r","i","a">>,
       <<"w","i","r","e","g","u","a","r","d">> >>

SchemeSep == <<":", "/", "/">>
HttpPrefix == <<"h","t","t","p",":","/","/">>

Base64MinLen == 40
ContextWindow == 50

\* the (lower-case) literal lit matches s at position at, ignoring case
MatchAt(s, at, lit) ==
    /\ at >= 1
    /\ at + Len(lit) - 1 <= Len(s)
    /\ \A k \in 1..Len(lit) : LowerChar(s[at + k - 1]) = lit[k]

WordAt(s, at) == at >= 1 /\ at <= Len(s) /\ IsWord(s[at])

\* \b between s[at-1] and s[at]
Boundary(s, at) == WordAt(s, at - 1) # WordAt(s, at)

\* PRIMARY_RX compiled without (?i): the scheme names match in lower case only
PRIMARY_RX_CaseSensitive(s) ==
    \E at \in 1..Len(s) :
        /\ Boundary(s, at)
        /\ \E n \in DOMAIN PRIMARY_SCHEMES :
              /\ at + Len(PRIMARY_SCHEMES[n] \o SchemeSep) - 1 <= Len(s)
              /\ SubSeq(s, at, at + Len(PRIMARY_SCHEMES[n] \o SchemeSep) - 1)
                    = PRIMARY_SCHEMES[n] \o SchemeSep

\* PRIMARY_RX.search(s)
PRIMARY_RX(s) ==
    \E at \in 1..Len(s) :
        /\ Boundary(s, at)
        /\ \E n \in DOMAIN PRIMARY_SCHEMES : MatchAt(s, at, PRIMARY_SCHEMES[n] \o SchemeSep)

\* HTTP_CONTAINS_SCHEME_RX.search(s)
HTTP_CONTAINS_SCHEME_RX(s) ==
    \E at \in 1..Len(s) :
        \E n \in DOMAIN HTTP_KEYWORDS : MatchAt(s, at, HTTP_KEYWORDS[n])

\* BASE64_LONG_RX.search(s): a run of at least Base64MinLen base64 characters
\* (the ={0,2} tail may be empty)
BASE64_LONG_RX(s) ==
    \E at \in 1..(Len(s) - Base64MinLen + 1) :
        \A k \in 0..(Base64MinLen - 1) : IsB64(s[at + k])

\* HTTP_RX written as \bhttps?://: a secure link is a candidate too
HttpMatchAtAnyScheme(s, at) ==
    /\ Boundary(s, at)
    /\ \/ /\ MatchAt(s, at, HttpPrefix)
          /\ at + Len(HttpPrefix) <= Len(s)
          /\ ~IsUrlStop(s[at + Len(HttpPrefix)])
       \/ /\ MatchAt(s, at, <<"h","t","t","p","s",":","/","/">>)
          /\ at + Len(HttpPrefix) + 1 <= Len(s)
          /\ ~IsUrlStop(s[at + Len(HttpPrefix) + 1])

\* HTTP_RX matches at position at: \bhttp:// and at least one non-stop character
HttpMatchAt(s, at) ==
    /\ Boundary(s, at)
    /\ MatchAt(s, at, HttpPrefix)
    /\ at + Len(HttpPrefix) <= Len(s)
    /\ ~IsUrlStop(s[at + Len(HttpPrefix)])

\* last position of the greedy [^\s'"<>]+ started at position at
UrlEnd(s, at) ==
    CHOOSE e \in (at + Len(HttpPrefix))..Len(s) :
        /\ \A k \in (at + Len(HttpPrefix))..e : ~IsUrlStop(s[k])
        /\ (e = Len(s) \/ IsUrlStop(s[e + 1]))

\* HTTP_RX.finditer(s): the non-overlapping matches, left to right, as
\* [start, end] with 1-based inclusive positions
RECURSIVE HTTP_RX(_, _)
HTTP_RX(s, from) ==
    IF from > Len(s) THEN << >>
    ELSE IF HttpMatchAt(s, from)
         THEN <<[start |-> from, end |-> UrlEnd(s, from)]>>
              \o HTTP_RX(s, UrlEnd(s, from) + 1)
         ELSE HTTP_RX(s, from + 1)

\* text[max(m.start() - 50, 0) : min(m.end() + 50, len(text))]
ContextOf(s, m) ==
    SubSeq(s, Max(m.start - ContextWindow, 1), Min(m.end + ContextWindow, Len(s)))

\* the checks made on one HTTP_RX match inside the loop
LinkIsConfig(s, m) ==
    LET url == SubSeq(s, m.start, m.end)
        context == ContextOf(s, m)
    IN  \/ HTTP_CONTAINS_SCHEME_RX(url)
        \/ BASE64_LONG_RX(url)
        \/ HTTP_CONTAINS_SCHEME_RX(context)
        \/ BASE64_LONG_RX(context)

detect_config_in_text(s) ==
    IF s = << >> THEN FALSE
    ELSE IF PRIMARY_RX(s) THEN TRUE
    ELSE \E m \in Range(HTTP_RX(s, 1)) : LinkIsConfig(s, m)

----------------------------------------------------------------------------
(* Ordering helper *)

\* A record is one entry of scrape_channel's result list: index, time_iso and
\* message_text, plus id, the identity of the Python dict (the other keys are
\* carried along untouched and are left out).  time_iso is -1 for None, 0 for
\* the empty string and 1..MaxTime for the non-empty strings in their
\* lexicographic order.

\* _key: t or ""
SortKey(r) == IF r.time_iso >= 1 THEN r.time_iso ELSE 0

Reverse(s) == [k \in 1..Len(s) |-> s[Len(s) + 1 - k]]

\* position of s[k] when equal keys end up in reverse input order
RankTiesReversed(s, k) ==
    1 + Cardinality({j \in DOMAIN s :
            \/ SortKey(s[j]) > SortKey(s[k])
            \/ (SortKey(s[j]) = SortKey(s[k]) /\ j > k)})

\* sorted(results, key=_key)[::-1]: descending, but equal keys end up reversed
SortedThenReversed(s) ==
    [p \in 1..Len(s) |-> s[CHOOSE k \in DOMAIN s : RankTiesReversed(s, k) = p]]

\* position of s[k] in the stable descending sort: behind the elements with a
\* larger key and behind the earlier elements with the same key
RankNewestFirst(s, k) ==
    1 + Cardinality({j \in DOMAIN s :
            \/ SortKey(s[j]) > SortKey(s[k])
            \/ (SortKey(s[j]) = SortKey(s[k]) /\ j < k)})

\* sorted(results, key=_key, reverse=True): descending, equal keys keep their order
SortedNewestFirst(s) ==
    [p \in 1..Len(s) |-> s[CHOOSE k \in DOMAIN s : RankNewestFirst(s, k) = p]]

\* for i, r in enumerate(ordered, start=1): r["index"] = i
Reindex(s) == [k \in 1..Len(s) |-> [s[k] EXCEPT !.index = k]]

\* the orderer without its fallback: always the timestamp sort
order_always_sorted(rs) ==
    IF rs = << >> THEN rs ELSE Reindex(SortedNewestFirst(rs))

order_results_newest_first(rs) ==
    IF rs = << >> THEN rs
    ELSE LET have_time == \E k \in DOMAIN rs : rs[k].time_iso >= 1
         IN  Reindex(IF have_time THEN SortedNewestFirst(rs) ELSE Reverse(rs))

\* the caller's list after the call: same order, but its dicts are the ones
\* whose index was reassigned
AfterOrdering(rs, ord) ==
    [k \in 1..Len(rs) |->
        [rs[k] EXCEPT !.index = CHOOSE p \in DOMAIN ord : ord[p].id = rs[k].id]]

----------------------------------------------------------------------------
(* Utilities *)

\* first position at or after from whose character is in stops, or Len(s) + 1
FirstOf(s, from, stops) ==
    IF \E k \in from..Len(s) : s[k] \in stops
    THEN CHOOSE k \in from..Len(s) :
            s[k] \in stops /\ \A j \in from..(k - 1) : s[j] \notin stops
    ELSE Len(s) + 1

\* urlparse(url): netloc and path of scheme://netloc/path?query#fragment;
\* without "://" the whole text up to ? or # is the path
UrlParse(url) ==
    LET seps == {k \in 1..Len(url) : MatchAt(url, k, SchemeSep)}
        hasNetloc == seps # {}
        start == IF hasNetloc
                 THEN (CHOOSE k \in seps : \A j \in seps : k <= j) + Len(SchemeSep)
                 ELSE 1
        netEnd == IF hasNetloc THEN FirstOf(url, start, {"/", "?", "#"}) ELSE start
        pathEnd == FirstOf(url, netEnd, {"?", "#"})
    IN  [netloc |-> SubSeq(url, start, netEnd - 1),
         path |-> SubSeq(url, netEnd, pathEnd - 1)]

RECURSIVE RStrip(_, _)
RStrip(s, c) ==
    IF s # << >> /\ s[Len(s)] = c THEN RStrip(SubSeq(s, 1, Len(s) - 1), c) ELSE s

RECURSIVE LStrip(_, _)
LStrip(s, c) == IF s # << >> /\ Head(s) = c THEN LStrip(Tail(s), c) ELSE s

\* path.split("/")[-1]
LastSegment(s) ==
    LET slashes == {k \in DOMAIN s : s[k] = "/"}
    IN  IF slashes = {} THEN s
        ELSE SubSeq(s, (CHOOSE k \in slashes : \A j \in slashes : j <= k) + 1, Len(s))

\* re.sub(r"[^\w]+", "_", name): every maximal run of non-word characters becomes "_"
RECURSIVE SubNonWord(_)
SubNonWord(s) ==
    IF s = << >> THEN << >>
    ELSE IF IsWord(Head(s)) THEN <<Head(s)>> \o SubNonWord(Tail(s))
    ELSE IF Len(s) >= 2 /\ ~IsWord(s[2]) THEN SubNonWord(Tail(s))
    ELSE <<"_">> \o SubNonWord(Tail(s))

\* re.sub(r"_{2,}", "_", name)
RECURSIVE SubUnderscores(_)
SubUnderscores(s) ==
    IF s = << >> THEN << >>
    ELSE IF Head(s) = "_" /\ Len(s) >= 2 /\ s[2] = "_" THEN SubUnderscores(Tail(s))
    ELSE <<Head(s)>> \o SubUnderscores(Tail(s))

DefaultName == <<"c","h","a","n","n","e","l">>

sane_name_from_url(url) ==
    LET parsed == UrlParse(url)
        path == RStrip(parsed.path, "/")
        name0 == IF path = << >>
                 THEN (IF parsed.netloc # << >> THEN parsed.netloc ELSE DefaultName)
                 ELSE LastSegment(path)
        name1 == [k \in 1..Len(name0) |-> LowerChar(name0[k])]
        name2 == SubNonWord(name1)
        name3 == RStrip(LStrip(SubUnderscores(name2), "_"), "_")
    IN  IF name3 = << >> THEN DefaultName ELSE name3

----------------------------------------------------------------------------
(* Save filtered results directly to raws/<base>.json *)

\* A file is [kind, items]: "absent", "json" (a complete JSON array of items) or
\* "partial" (opened for writing and left truncated by a failed dump).
NoFile == [kind |-> "absent", items |-> << >>]
JsonFile(items) == [kind |-> "json", items |-> items]
PartialFile == [kind |-> "partial", items |-> << >>]

\* os.path.exists(out_path)
Exists(dir, base) == dir[base].kind # "absent"

\* write_filtered_file without the else branch: an empty retained set leaves
\* the directory as it is
write_without_removal(dir, base, items, outcome) ==
    IF items # << >>
    THEN CASE outcome = "written" -> [dir EXCEPT ![base] = JsonFile(items)]
           [] outcome = "open_failed" -> dir
           [] outcome = "dump_failed" -> [dir EXCEPT ![base] = PartialFile]
    ELSE dir

\* write_filtered_file(raws_dir, base, matched_items), given what the operating
\* system does with the write or the removal; every exception is caught
write_filtered_file(dir, base, items, outcome) ==
    IF items # << >>
    THEN CASE outcome = "written" -> [dir EXCEPT ![base] = JsonFile(items)]
           [] outcome = "open_failed" -> dir
           [] outcome = "dump_failed" -> [dir EXCEPT ![base] = PartialFile]
    ELSE IF Exists(dir, base)
         THEN CASE outcome = "removed" -> [dir EXCEPT ![base] = NoFile]
                [] outcome = "remove_failed" -> dir
         ELSE dir

\* the outcomes the operating system can produce for that call
IoOutcomes(dir, base, items) ==
    IF items # << >> THEN {"written", "open_failed", "dump_failed"}
    ELSE IF Exists(dir, base) THEN {"removed", "remove_failed"}
    ELSE {"untouched"}

----------------------------------------------------------------------------
(* Main CLI: the loop body of main(), one action per step *)

\* the message bodies a page may hold
PageTexts == { <<"s","s",":","/","/","k">>, <<"h","i">> }

\* detect_config_in_text(msg_text), for every body main() can hand it
Detected == [b \in PageTexts \cup {<< >>} |-> detect_config_in_text(b)]

\* msg_text = entry.get("message_text") or entry.get("message") or ""
\* (scraped entries have no "message" key)
MsgTextOf(entry) == IF entry.message_text # << >> THEN entry.message_text ELSE << >>

\* a projection that keeps only a four-character preview of the body
ProjectItemPreview(entry) ==
    [index |-> entry.index,
     time_iso |-> entry.time_iso,
     message_text |-> SubSeq(MsgTextOf(entry), 1, Min(Len(MsgTextOf(entry)), 4))]

\* the dict appended to matched_items
ProjectItem(entry) ==
    [index |-> entry.index,
     time_iso |-> entry.time_iso,
     message_text |-> MsgTextOf(entry)]

\* if detect_config_in_text(msg_text)
IsMatch(entry) == Detected[MsgTextOf(entry)]

\* matched_items after the loop over ordered: the projections of the entries
\* the classifier accepts, in the order of ordered
BuildMatched(ord) ==
    LET kept == SelectSeq(ord, IsMatch)
    IN  [k \in 1..Len(kept) |-> ProjectItem(kept[k])]

\* the delay without its guard
AlwaysSleep(k, n) == "sleep"

\* if i != len(channels): time.sleep(args.delay)
AfterPersist(k, n) == IF k # n THEN "sleep" ELSE "done"

Step(name) == [step |-> name, ch |-> i]

\* the URLs a channels file may list
ChannelUrls ==
    { <<"h","t","t","p","s",":","/","/","t",".","m","e","/","s","/","f","o","o">>,
      <<"h","t","t","p","s",":","/","/","x",".","i","o","/","F","o","o","/","?","p">>,
      <<"h","t","t","p","s",":","/","/","t",".","m","e">> }

\* base = sane_name_from_url(url), for every URL of a channels file
BaseOf == [u \in ChannelUrls |-> sane_name_from_url(u)]

BaseNames == { BaseOf[u] : u \in ChannelUrls }

\* the time_iso values of a page of n messages: no message carries a <time>
\* element, or every message does and the page lists the oldest first
PageTimes(n) == { [k \in 1..n |-> -1], [k \in 1..n |-> k] }

\* what scrape_channel can parse out of a page: index and id count the wrappers
Pages ==
    UNION { { [k \in 1..n |-> [id |-> k, index |-> k,
                                time_iso |-> t[k], message_text |-> b[k]]] :
              t \in PageTimes(n), b \in [1..n -> PageTexts] } : n \in 0..MaxRecords }

\* what the output directory may hold before the run
PriorFiles == { NoFile, JsonFile(<< >>) }

ClassifierIdle == text = << >> /\ verdict = "none"

Init ==
    /\ ClassifierIdle
    /\ \/ /\ channels_file = "present"
          /\ channels \in UNION { [1..n -> ChannelUrls] : n \in 0..MaxChannels }
       \/ /\ channels_file = "missing"
          /\ channels = << >>
    /\ i = 0
    /\ pc = "start"
    /\ fetch_status = "none"
    /\ extracted = << >>
    /\ results = << >>
    /\ ordered = << >>
    /\ matched_items = << >>
    /\ fs \in [BaseNames -> PriorFiles]
    /\ io_status = "none"
    /\ log = << >>

\* main(), lines 297-307: no channels file or no channel in it ends the run
NoChannels ==
    /\ pc = "start"
    /\ (channels_file = "missing" \/ channels = << >>)
    /\ pc' = "done"
    /\ UNCHANGED <<channels_file, channels, i, fetch_status, extracted, results,
                   ordered, matched_items, fs, io_status, log>>

\* the for loop is entered with the first channel
EnterLoop ==
    /\ pc = "start"
    /\ channels_file = "present" /\ channels # << >>
    /\ i' = 1
    /\ pc' = "fetch"
    /\ UNCHANGED <<channels_file, channels, fetch_status, extracted, results,
                   ordered, matched_items, fs, io_status, log>>

\* scrape_channel returned the records of the page
FetchOk ==
    /\ pc = "fetch"
    /\ \E page \in Pages :
          /\ extracted' = page
          /\ results' = page
    /\ fetch_status' = "ok"
    /\ log' = Append(log, Step("fetch"))
    /\ pc' = "order"
    /\ UNCHANGED <<channels_file, channels, i, ordered, matched_items, fs, io_status>>

\* a fetch failure that is not caught: the run ends at this channel
FetchFailedAborts ==
    /\ pc = "fetch"
    /\ extracted' = << >>
    /\ results' = << >>
    /\ fetch_status' = "fetch_failed"
    /\ log' = Append(log, Step("fetch"))
    /\ pc' = "done"
    /\ UNCHANGED <<channels_file, channels, i, ordered, matched_items, fs, io_status>>

\* session.get or raise_for_status raised: scrape_channel logs and returns []
FetchFailed ==
    /\ pc = "fetch"
    /\ extracted' = << >>
    /\ results' = << >>
    /\ fetch_status' = "fetch_failed"
    /\ log' = Append(log, Step("fetch"))
    /\ pc' = "order"
    /\ UNCHANGED <<channels_file, channels, i, ordered, matched_items, fs, io_status>>

\* scrape_channel raised after the fetch: main() logs and sets results = []
ScrapeRaised ==
    /\ pc = "fetch"
    /\ extracted' = << >>
    /\ results' = << >>
    /\ fetch_status' = "scrape_raised"
    /\ log' = Append(log, Step("fetch"))
    /\ pc' = "order"
    /\ UNCHANGED <<channels_file, channels, i, ordered, matched_items, fs, io_status>>

\* ordered = order_results_newest_first(results)
Order ==
    /\ pc = "order"
    /\ ordered' = order_results_newest_first(results)
    /\ results' = AfterOrdering(results, ordered')
    /\ log' = Append(log, Step("order"))
    /\ pc' = "classify"
    /\ UNCHANGED <<channels_file, channels, i, fetch_status, extracted,
                   matched_items, fs, io_status>>

\* the loop that builds matched_items
Filter ==
    /\ pc = "classify"
    /\ matched_items' = BuildMatched(ordered)
    /\ log' = Append(log, Step("classify"))
    /\ pc' = "persist"
    /\ UNCHANGED <<channels_file, channels, i, fetch_status, extracted, results,
                   ordered, fs, io_status>>

\* base = sane_name_from_url(url); write_filtered_file(args.outdir, base, matched_items)
Persist ==
    /\ pc = "persist"
    /\ \E outcome \in IoOutcomes(fs, BaseOf[channels[i]], matched_items) :
          /\ fs' = write_filtered_file(fs, BaseOf[channels[i]], matched_items, outcome)
          /\ io_status' = outcome
    /\ log' = Append(log, Step("persist"))
    /\ pc' = AfterPersist(i, Len(channels))
    /\ UNCHANGED <<channels_file, channels, i, fetch_status, extracted, results,
                   ordered, matched_items>>

\* time.sleep(args.delay), then the loop takes the next channel or ends.
\* results, ordered and matched_items are locals the next iteration assigns
\* before it reads them: the model forgets them when the iteration ends.
Sleep ==
    /\ pc = "sleep"
    /\ log' = Append(log, Step("sleep"))
    /\ IF i < Len(channels)
       THEN i' = i + 1 /\ pc' = "fetch"
       ELSE i' = i /\ pc' = "done"
    /\ fetch_status' = "none"
    /\ io_status' = "none"
    /\ extracted' = << >>
    /\ results' = << >>
    /\ ordered' = << >>
    /\ matched_items' = << >>
    /\ UNCHANGED <<channels_file, channels, fs>>

Next ==
    \/ (NoChannels /\ UNCHANGED classifyVars)
    \/ (EnterLoop /\ UNCHANGED classifyVars)
    \/ (FetchOk /\ UNCHANGED classifyVars)
    \/ (FetchFailed /\ UNCHANGED classifyVars)
    \/ (ScrapeRaised /\ UNCHANGED classifyVars)
    \/ (Order /\ UNCHANGED classifyVars)
    \/ (Filter /\ UNCHANGED classifyVars)
    \/ (Persist /\ UNCHANGED classifyVars)
    \/ (Sleep /\ UNCHANGED classifyVars)

Spec == Init /\ [][Next]_vars

----------------------------------------------------------------------------
(* The orderer on its own: every input of at most MaxLen records *)

OrderTimes == -1..MaxTime

OrderInputs ==
    UNION { { [k \in 1..n |-> [id |-> k, index |-> k,
                                time_iso |-> f[k], message_text |-> <<"h","i">>]] :
              f \in [1..n -> OrderTimes] } : n \in 0..MaxLen }

MainIdle ==
    /\ channels_file = "missing"
    /\ channels = << >>
    /\ i = 0
    /\ fetch_status = "none"
    /\ matched_items = << >>
    /\ fs = [b \in BaseNames |-> NoFile]
    /\ io_status = "none"
    /\ log = << >>

InitOrder ==
    /\ ClassifierIdle
    /\ MainIdle
    /\ pc = "order"
    /\ extracted \in OrderInputs
    /\ results = extracted
    /\ ordered = << >>

\* one call of order_results_newest_first
OrderCall ==
    /\ pc = "order"
    /\ ordered' = order_results_newest_first(results)
    /\ results' = AfterOrdering(results, ordered')
    /\ pc' = "ordered"
    /\ UNCHANGED <<channels_file, channels, i, fetch_status, extracted,
                   matched_items, fs, io_status, log>>

NextOrder == OrderCall /\ UNCHANGED classifyVars

SpecOrder == InitOrder /\ [][NextOrder]_vars

----------------------------------------------------------------------------
(* Classifier inputs *)

RECURSIVE Repeat(_, _)
Repeat(c, n) == IF n = 0 THEN << >> ELSE <<c>> \o Repeat(c, n - 1)

\* the fragments bodies are built from
Atoms ==
    { <<"h","t","t","p",":","/","/","x">>,
      <<"h","t","t","p","s",":","/","/","x">>,
      <<"v","m","e","s","s">>,
      <<"S","s">>,
      <<"h","y","s","t","e","r","i","a">>,
      <<"2">>,
      <<":","/","/">>,
      <<" ">>,
      <<"-">>,
      Repeat(" ", ContextWindow - 2),
      Repeat("A", Base64MinLen - 3) }

RECURSIVE Concat(_)
Concat(ss) == IF ss = << >> THEN << >> ELSE Head(ss) \o Concat(Tail(ss))

Bodies == { Concat(f) : f \in UNION { [1..n -> Atoms] : n \in 0..MaxAtoms } }

InitClassify ==
    /\ text \in Bodies
    /\ verdict = "none"
    /\ MainIdle
    /\ pc = "idle"
    /\ extracted = << >>
    /\ results = << >>
    /\ ordered = << >>

\* one call of detect_config_in_text
Classify ==
    /\ verdict = "none"
    /\ verdict' = IF detect_config_in_text(text) THEN "pos" ELSE "neg"
    /\ UNCHANGED text

NextClassify == Classify /\ UNCHANGED mainVars

SpecClassify == InitClassify /\ [][NextClassify]_vars

----------------------------------------------------------------------------
(* Properties of the orderer (SpecOrder) *)

HasTimestamp(rs) == \E k \in DOMAIN rs : rs[k].time_iso >= 1

\* the sort key the specification gives a timestamp: itself, or the empty
\* string (0) when the record has none
TimeKey(t) == IF t >= 1 THEN t ELSE 0

\* out holds the records of inp, each once, with index = position
IsReindexedPermutation(out, inp) ==
    /\ Len(out) = Len(inp)
    /\ {out[k].id : k \in DOMAIN out} = DOMAIN inp
    /\ \A k \in DOMAIN out : out[k] = [inp[out[k].id] EXCEPT !.index = k]

\* C1: for a non-empty input with at least one non-empty timestamp, the output
\* is a permutation of the input sorted by timestamp descending, records
\* without a timestamp last, equal timestamps in input order, index = 1..N.
C1_SortedStableReindexed ==
    (pc = "ordered" /\ extracted # << >> /\ HasTimestamp(extracted)) =>
        /\ IsReindexedPermutation(ordered, extracted)
        /\ \A a, b \in DOMAIN ordered :
              a < b => TimeKey(ordered[a].time_iso) >= TimeKey(ordered[b].time_iso)
        /\ \A a, b \in DOMAIN ordered :
              (a < b /\ ordered[a].time_iso < 1) => ordered[b].time_iso < 1
        /\ \A a, b \in DOMAIN ordered :
              (a < b /\ TimeKey(ordered[a].time_iso) = TimeKey(ordered[b].time_iso))
                  => ordered[a].id < ordered[b].id
        /\ \A k \in DOMAIN ordered : ordered[k].index = k

\* an ordered input with a tie between two timestamps and a record without
\* timestamp that did not come last in the input
C1_Witness ==
    /\ pc = "ordered"
    /\ HasTimestamp(extracted)
    /\ \E a, b \in DOMAIN extracted :
          a < b /\ extracted[a].time_iso >= 1
                /\ extracted[a].time_iso = extracted[b].time_iso
    /\ \E k \in DOMAIN extracted : k < Len(extracted) /\ extracted[k].time_iso < 1
    /\ ordered[Len(ordered)].time_iso < 1

\* C2: for an input in which no record has a non-empty timestamp, the output is
\* exactly the reverse of the input, with index reassigned 1..N.
C2_ReversedWhenNoTimestamps ==
    (pc = "ordered" /\ ~HasTimestamp(extracted)) =>
        /\ Len(ordered) = Len(extracted)
        /\ \A k \in DOMAIN ordered :
              ordered[k] = [extracted[Len(extracted) + 1 - k] EXCEPT !.index = k]

\* a reversed input of at least two records, one with time_iso None and one
\* with an empty time_iso
C2_Witness ==
    /\ pc = "ordered"
    /\ ~HasTimestamp(extracted)
    /\ Len(extracted) >= 2
    /\ \E a, b \in DOMAIN extracted :
          extracted[a].time_iso = -1 /\ extracted[b].time_iso = 0
    /\ ordered[1].id = Len(extracted)

----------------------------------------------------------------------------
(* Properties of the classifier (SpecClassify) *)

\* the scheme allow-list as the specification names it
AllowList ==
    { <<"v","m","e","s","s">>, <<"s","s">>, <<"s","o","c","k","s">>,
      <<"v","l","e","s","s">>, <<"t","r","o","j","a","n">>,
      <<"w","i","r","e","g","u","a","r","d">>,
      <<"h","y","s","t","e","r","i","a","2">> }

\* an allow-list name followed by "://" starts at position at (case-insensitive)
TokenAt(s, at) == \E name \in AllowList : MatchAt(s, at, name \o <<":","/","/">>)

ContainsSchemeToken(s) == \E at \in 1..Len(s) : TokenAt(s, at)

\* s contains an allow-list name (case-insensitive)
ContainsAllowListName(s) ==
    \E at \in 1..Len(s) : \E name \in AllowList : MatchAt(s, at, name)

\* C3 as stated: a body that contains an allow-list scheme name immediately
\* followed by "://" is positive whatever character precedes the scheme name.
C3_TokenAnywhereIsPositive ==
    (verdict # "none" /\ ContainsSchemeToken(text)) => verdict = "pos"

\* C3 amended: a body in which an allow-list scheme name followed by "://"
\* starts the body or follows a character that is not a letter, digit or
\* underscore is positive, whatever else surrounds the token.
C3_TokenAtWordBoundaryIsPositive ==
    (/\ verdict # "none"
     /\ \E at \in 1..Len(text) :
           TokenAt(text, at) /\ (at = 1 \/ ~IsWord(text[at - 1])))
        => verdict = "pos"

\* a classified body whose only token follows a non-word character, in mixed case
C3_Witness ==
    /\ verdict = "pos"
    /\ \E at \in 2..Len(text) :
          /\ TokenAt(text, at)
          /\ ~IsWord(text[at - 1])
          /\ text[at] \in UpperLetters
          /\ \A other \in 1..Len(text) : TokenAt(text, other) => other = at

\* an https:// link starts at position at
HttpsLinkAt(s, at) ==
    /\ MatchAt(s, at, <<"h","t","t","p","s",":","/","/">>)
    /\ at + 8 <= Len(s)
    /\ ~IsUrlStop(s[at + 8])

\* the text of the link that starts at position at
LinkText(s, at) ==
    SubSeq(s, at, FirstOf(s, at, {" ", "\n", "\t", "\r", "'", "\"", "<", ">"}) - 1)

\* s contains the text http:// (a plain-http link) somewhere
ContainsPlainHttp(s) == \E at \in 1..Len(s) : MatchAt(s, at, <<"h","t","t","p",":","/","/">>)

\* the body's only link is an https:// link with a scheme keyword in it
OnlyHttpsLinkWithKeyword(s) ==
    /\ \E at \in 1..Len(s) :
          HttpsLinkAt(s, at) /\ ContainsAllowListName(LinkText(s, at))
    /\ ~ContainsPlainHttp(s)
    /\ ~ContainsSchemeToken(s)

\* C4: a body whose only link is an https:// link with scheme keywords in it,
\* and which holds no direct scheme token, is negative.
C4_HttpsLinkIsNotScanned ==
    (verdict # "none" /\ OnlyHttpsLinkWithKeyword(text)) => verdict = "neg"

\* a classified body with such an https:// link
C4_Witness ==
    /\ verdict = "neg"
    /\ OnlyHttpsLinkWithKeyword(text)

\* C9 as stated: without a direct scheme token and without a long base64 run,
\* a body is positive exactly when some http:// URL, or its context window,
\* contains one of the allow-list names.
C9_KeywordsAreTheAllowList ==
    (verdict # "none" /\ ~ContainsSchemeToken(text) /\ ~BASE64_LONG_RX(text)) =>
        (verdict = "pos" <=>
            \E m \in Range(HTTP_RX(text, 1)) :
                \/ ContainsAllowListName(SubSeq(text, m.start, m.end))
                \/ ContainsAllowListName(ContextOf(text, m)))

----------------------------------------------------------------------------
(* Properties of the run (Spec) *)

\* the current channel's write_filtered_file call has returned
Persisted == pc \in {"sleep", "done"} /\ io_status # "none"

CurrentBase == BaseOf[channels[i]]

\* the channel's file exists exactly when items is non-empty, and then holds items
FileMatches(dir, base, items) ==
    /\ Exists(dir, base) <=> items # << >>
    /\ Exists(dir, base) => dir[base] = JsonFile(items)
    /\ dir[base] # JsonFile(<< >>)

C6_PersistLeavesOtherChannelsFiles ==
    [][pc = "persist" =>
        \A j \in DOMAIN channels :
            channels[j] # channels[i] =>
                fs'[BaseOf[channels[j]]] = fs[BaseOf[channels[j]]]
      ]_vars

\* the steps of channel k in a run over n channels
StepsOf(k, n) ==
    << [step |-> "fetch", ch |-> k], [step |-> "order", ch |-> k],
       [step |-> "classify", ch |-> k], [step |-> "persist", ch |-> k] >>
    \o (IF k # n THEN << [step |-> "sleep", ch |-> k] >> ELSE << >>)

RECURSIVE StepsFrom(_, _)
StepsFrom(k, n) == IF k > n THEN << >> ELSE StepsOf(k, n) \o StepsFrom(k + 1, n)

IsPrefix(a, b) == Len(a) <= Len(b) /\ a = SubSeq(b, 1, Len(a))

FetchHasFailed == fetch_status \in {"fetch_failed", "scrape_raised"}

C8_DelayBetweenChannelsOnly ==
    (channels_file = "present" /\ channels # << >>) =>
        /\ \A p \in DOMAIN log :
              log[p].step = "sleep" =>
                  /\ p > 1
                  /\ log[p - 1] = [step |-> "persist", ch |-> log[p].ch]
                  /\ log[p].ch < Len(channels)
                  /\ p < Len(log) => log[p + 1] = [step |-> "fetch", ch |-> log[p].ch + 1]
        /\ \A p \in DOMAIN log :
              (log[p].step = "fetch" /\ log[p].ch > 1) =>
                  log[p - 1] = [step |-> "sleep", ch |-> log[p].ch - 1]
        /\ pc = "done" =>
              /\ Cardinality({p \in DOMAIN log : log[p].step = "sleep"}) = Len(channels) - 1
              /\ log[Len(log)].step = "persist"

\* a finished run over two or more channels whose last fetch raised
C8_Witness ==
    /\ pc = "done"
    /\ Len(channels) >= 2
    /\ fetch_status = "scrape_raised"
    /\ Cardinality({p \in DOMAIN log : log[p].step = "sleep"}) >= 1

Accepted(r) == detect_config_in_text(r.message_text)

\* C10: ordering and classification leave every message_text as extracted; the
\* retained items are the accepted ordered records, in order, with the
\* extracted message_text; a written file holds exactly these items.
C10_BodyTextUnchanged ==
    /\ pc \in {"classify", "persist", "sleep", "done"} =>
          /\ Len(ordered) = Len(extracted)
          /\ \A k \in DOMAIN ordered :
                ordered[k].message_text = extracted[ordered[k].id].message_text
          /\ \A k \in DOMAIN results :
                results[k].message_text = extracted[k].message_text
    /\ (pc \in {"persist", "sleep", "done"} /\ fetch_status # "none") =>
          LET kept == SelectSeq(ordered, Accepted)
          IN  /\ Len(matched_items) = Len(kept)
              /\ \A k \in DOMAIN kept :
                    /\ matched_items[k].index = kept[k].index
                    /\ matched_items[k].message_text = extracted[kept[k].id].message_text
    /\ (Persisted /\ io_status = "written") =>
          /\ fs[CurrentBase].kind = "json"
          /\ fs[CurrentBase].items = matched_items

\* a written file of a page whose two records were reordered
C10_Witness ==
    /\ Persisted
    /\ io_status = "written"
    /\ Len(ordered) = 2
    /\ ordered[1].id = 2
    /\ Len(matched_items) >= 1
    /\ fs[CurrentBase].items = matched_items

====
